---- MODULE Spec2Model ----
(***************************************************************************)
(* A model of mandelbroti.js: the incremental escape-time Mandelbrot       *)
(* plotter.  The state is the script configuration, the pixel grid         *)
(* mb_grid, the RGBA image data mb_data, the iteration counter cur_iter,   *)
(* the image last put on the canvas and the position of the iterate()      *)
(* loop; probe holds the argument and result of a function that is checked *)
(* on its own.  Plane coordinates are integers: the configurations drawn by Init *)
(* are those for which every value the script computes in double           *)
(* precision is an exactly representable integer, so integer arithmetic    *)
(* computes what the script computes.                                      *)
(***************************************************************************)
EXTENDS Integers, Sequences, FiniteSets, TLC

VARIABLES mb_width, mb_height, max_iterations, mb_xmin, mb_xmax,
          mb_grid, mb_data, cur_iter, canvas_image,
          iterate_ret, redraw_ret, running, loop_i, probe

vars == <<mb_width, mb_height, max_iterations, mb_xmin, mb_xmax,
          mb_grid, mb_data, cur_iter, canvas_image,
          iterate_ret, redraw_ret, running, loop_i, probe>>

config == <<mb_width, mb_height, max_iterations, mb_xmin, mb_xmax>>

----------------------------------------------------------------------------
(* Bounds of the model. *)

\* largest canvas width and height drawn by Init
MaxDim == 3
\* largest max_iterations drawn by Init
MaxIter == 3
\* how many iterate() calls past max_iterations the free-call model makes
ExtraCalls == 2
\* plane bounds are drawn from -MaxCoord..MaxCoord
MaxCoord == 2
\* single points are drawn with coordinates that are multiples of 1/ProbeDen
ProbeDen == 2

----------------------------------------------------------------------------
(* Script numbers: integers, and NaN, which 0/0 produces.  Arithmetic on   *)
(* NaN gives NaN and every comparison with NaN is false.                   *)

NaN == 0 - 1000000

IsNaN(v) == v = NaN

jsAdd(a, b) == IF IsNaN(a) \/ IsNaN(b) THEN NaN ELSE a + b

jsSub(a, b) == IF IsNaN(a) \/ IsNaN(b) THEN NaN ELSE a - b

jsMul(a, b) == IF IsNaN(a) \/ IsNaN(b) THEN NaN ELSE a * b

jsLeq(a, b) == ~IsNaN(a) /\ ~IsNaN(b) /\ a <= b

\* a coordinate mapping that answers 0 where the script divides 0 by 0
ScaleCoord_ZeroForNaN(c, n, width) == IF n = 0 THEN 0 ELSE (c * width) \div n

\* (c/n)*width for 0 <= c <= n: 0/0 is NaN, and otherwise the quotient is
\* exact on the configurations drawn
ScaleCoord(c, n, width) == IF n = 0 THEN NaN ELSE (c * width) \div n

----------------------------------------------------------------------------
(* Script configuration (main script). *)

mb_total == mb_width * mb_height

\* mb_ymax=((mb_xmax - mb_xmin) * (mb_height/mb_width)) / 2
YMaxOf(w, h, xmin, xmax) == ((xmax - xmin) * h) \div (2 * w)

mb_ymax == YMaxOf(mb_width, mb_height, mb_xmin, mb_xmax)

mb_ymin == 0 - mb_ymax

mb_xwidth == mb_xmax - mb_xmin

mb_yheight == mb_ymax - mb_ymin

Pow2(n) == n \in {1, 2, 4, 8, 16}

\* The configurations on which the script's double arithmetic is exact
\* integer arithmetic: cx/(w-1) and h/w are dyadic fractions and every
\* x0, y0 and mb_ymax is an integer.
ExactConfig(w, h, xmin, xmax) ==
    /\ w > 1 /\ h > 1 /\ xmin < xmax
    /\ Pow2(w - 1) /\ Pow2(h - 1)
    /\ (Pow2(w) \/ h % w = 0)
    /\ ((xmax - xmin) * h) % (2 * w) = 0
    /\ (xmax - xmin) % (w - 1) = 0
    /\ (2 * YMaxOf(w, h, xmin, xmax)) % (h - 1) = 0

----------------------------------------------------------------------------
(* The colour gradient: d3.scale.linear over colours, then hex parsing. *)

HexDigits == <<"0", "1", "2", "3", "4", "5", "6", "7",
               "8", "9", "a", "b", "c", "d", "e", "f">>

\* range(["blue", "green", "red", "yellow", "black"]) as RGB triples
ColorRange == << <<0, 0, 255>>, <<0, 128, 0>>, <<255, 0, 0>>,
                 <<255, 255, 0>>, <<0, 0, 0>> >>

\* domain([0, max/100, max/10, max/3, max]) multiplied by 300
ColorDomain == <<0, 3 * max_iterations, 30 * max_iterations,
                 100 * max_iterations, 300 * max_iterations>>

\* d3.bisect(domain, x, 1, 4) - 1: the segment of the gradient x falls in
ColorSegment(x300) ==
    IF x300 < ColorDomain[2] THEN 1
    ELSE IF x300 < ColorDomain[3] THEN 2
    ELSE IF x300 < ColorDomain[4] THEN 3
    ELSE 4

\* Math.round(a + (b - a) * num / den)
RoundLerp(a, b, num, den) ==
    (2 * a * den + 2 * (b - a) * num + den) \div (2 * den)

\* d3_rgb_hex: two lower-case hex characters of a channel value, which
\* is clamped to 0..255
d3_rgb_hex(v) ==
    LET c == IF v < 0 THEN 0 ELSE IF v > 255 THEN 255 ELSE v
    IN  <<HexDigits[(c \div 16) + 1], HexDigits[(c % 16) + 1]>>

\* color(iter): the "#rrggbb" string of the gradient at iter
color(iter) ==
    LET j   == ColorSegment(300 * iter)
        a   == ColorRange[j]
        b   == ColorRange[j + 1]
        \* d3 takes t = 0 on a segment of zero length
        width == ColorDomain[j + 1] - ColorDomain[j]
        num == IF width = 0 THEN 0 ELSE 300 * iter - ColorDomain[j]
        den == IF width = 0 THEN 1 ELSE width
        ch(k) == d3_rgb_hex(RoundLerp(a[k], b[k], num, den))
    IN  <<"#">> \o ch(1) \o ch(2) \o ch(3)

\* parseInt(s, 16) of a string of hex characters
RECURSIVE parseInt16(_)
parseInt16(s) ==
    IF s = <<>> THEN 0
    ELSE 16 * parseInt16(SubSeq(s, 1, Len(s) - 1))
         + ((CHOOSE d \in 1..16 : HexDigits[d] = s[Len(s)]) - 1)

\* what getHexComponent returns on an unsupported length: the string
\* itself, which a Uint8ClampedArray stores as 0
NotANumber == 0 - 1

\* clr.substring(from, to) with 0-based from, exclusive to
substring(clr, from, to) == SubSeq(clr, from + 1, to)

getHexComponent(clr, component) ==
    CASE Len(clr) = 4 ->
           parseInt16(substring(clr, component + 1, component + 2))
      [] Len(clr) = 7 ->
           parseInt16(substring(clr, (component * 2) + 1, (component * 2) + 3))
      [] OTHER -> NotANumber

\* a store into the Uint8ClampedArray mb_data
Uint8Clamped(v) == IF v < 0 THEN 0 ELSE IF v > 255 THEN 255 ELSE v

----------------------------------------------------------------------------
(* inMandelbrot.  inMandelbrotScaled takes the point (x/d, y/d) and        *)
(* compares the two sides of each test multiplied by 256*d^4 and 16*d^2,   *)
(* with q = 16*d^2 times the script's q.                                   *)

\* a faulty bulb test: 0.625 for 0.0625
inMandelbrotScaled_WideBulb(x, y, d) ==
    LET q          == 16 * x * x - 8 * x * d + d * d + 16 * y * y
        inCardioid == q * (q + 16 * x * d - 4 * d * d) < 64 * y * y * d * d
        inP2Bulb   == 16 * (x * x + 2 * x * d + d * d + y * y) < 10 * d * d
    IN  inCardioid \/ inP2Bulb

inMandelbrotScaled(x, y, d) ==
    LET q          == 16 * x * x - 8 * x * d + d * d + 16 * y * y
        inCardioid == q * (q + 16 * x * d - 4 * d * d) < 64 * y * y * d * d
        inP2Bulb   == 16 * (x * x + 2 * x * d + d * d + y * y) < d * d
    IN  inCardioid \/ inP2Bulb

\* a faulty cardioid test: q + (x + 0.25)
inMandelbrot_WrongSign(x, y) ==
    LET q16        == 16 * x * x - 8 * x + 1 + 16 * y * y
        inCardioid == q16 * (q16 + 16 * x + 4) < 64 * y * y
        inP2Bulb   == 16 * (x * x + 2 * x + 1 + y * y) < 1
    IN  inCardioid \/ inP2Bulb

\* on the integers and NaN of the grid model
inMandelbrot(x, y) ==
    IF IsNaN(x) \/ IsNaN(y) THEN FALSE ELSE inMandelbrotScaled(x, y, 1)

----------------------------------------------------------------------------
(* The grid initializer. *)

PixelIdx == 0 .. (mb_total - 1)

DataIdx == 0 .. (4 * mb_total - 1)

\* a faulty initializer: the row is i / mb_height
InitPixel_RowByHeight(i) ==
    LET cx   == i % mb_width
        cy   == i \div mb_height
        x0   == jsAdd(mb_xmin, ScaleCoord(cx, mb_width - 1, mb_xwidth))
        y0   == jsAdd(mb_ymin, ScaleCoord(cy, mb_height - 1, mb_yheight))
        done == inMandelbrot(x0, y0)
        iter == IF done THEN max_iterations ELSE 0
    IN  [cx |-> cx, cy |-> cy, x0 |-> x0, y0 |-> y0,
         x |-> 0, y |-> 0, iter |-> iter, done |-> done]

\* a faulty initializer: iter starts at 0 for certified pixels too
InitPixel_IterZero(i) ==
    LET cx   == i % mb_width
        cy   == i \div mb_width
        x0   == mb_xmin + (cx * mb_xwidth) \div (mb_width - 1)
        y0   == mb_ymin + (cy * mb_yheight) \div (mb_height - 1)
    IN  [cx |-> cx, cy |-> cy, x0 |-> x0, y0 |-> y0,
         x |-> 0, y |-> 0, iter |-> 0, done |-> inMandelbrot(x0, y0)]

\* the pixel record built for linear index i
InitPixel(i) ==
    LET cx   == i % mb_width
        cy   == i \div mb_width
        x0   == jsAdd(mb_xmin, ScaleCoord(cx, mb_width - 1, mb_xwidth))
        y0   == jsAdd(mb_ymin, ScaleCoord(cy, mb_height - 1, mb_yheight))
        done == inMandelbrot(x0, y0)
        iter == IF done THEN max_iterations ELSE 0
    IN  [cx |-> cx, cy |-> cy, x0 |-> x0, y0 |-> y0,
         x |-> 0, y |-> 0, iter |-> iter, done |-> done]

\* the four stores mb_data[i*4 .. i*4+3] for a pixel whose colour is clr
WriteColor(data, i, clr) ==
    [k \in DOMAIN data |->
        IF k = i * 4 THEN Uint8Clamped(getHexComponent(clr, 0))
        ELSE IF k = i * 4 + 1 THEN Uint8Clamped(getHexComponent(clr, 1))
        ELSE IF k = i * 4 + 2 THEN Uint8Clamped(getHexComponent(clr, 2))
        ELSE IF k = i * 4 + 3 THEN 255
        ELSE data[k]]

InitGrid == [i \in PixelIdx |-> InitPixel(i)]

\* createImageData gives transparent black; the initializer then writes
\* every pixel's initial colour
RECURSIVE InitDataFrom(_, _)
InitDataFrom(data, i) ==
    IF i >= mb_total THEN data
    ELSE InitDataFrom(WriteColor(data, i, color(InitPixel(i).iter)), i + 1)

InitData == InitDataFrom([k \in DataIdx |-> 0], 0)

----------------------------------------------------------------------------
(* iterate(): the body of the for loop for one pixel, and the whole loop.  *)

\* a faulty test: the radius itself counts as escaped
Continues_EscapeAtRadius(pixel) ==
    /\ pixel.x * pixel.x + pixel.y * pixel.y < 4
    /\ pixel.iter < max_iterations

\* a faulty test: the escape test left out
Continues_NoEscape(pixel) ==
    pixel.iter < max_iterations

\* a faulty test: the cap on pixel.iter left out
Continues_NoCap(pixel) ==
    pixel.x * pixel.x + pixel.y * pixel.y <= 4

\* (x2 + y2) <= 4 && pixel.iter < max_iterations
Continues(pixel) ==
    /\ jsLeq(jsAdd(jsMul(pixel.x, pixel.x), jsMul(pixel.y, pixel.y)), 4)
    /\ pixel.iter < max_iterations

\* a faulty loop body: pixel.y is computed from the new pixel.x
StepPixel_NewXInY(pixel) ==
    IF ~pixel.done
    THEN IF Continues(pixel)
         THEN LET xnew == pixel.x * pixel.x - pixel.y * pixel.y + pixel.x0
              IN  [pixel EXCEPT !.x = xnew,
                                !.y = 2 * xnew * pixel.y + pixel.y0,
                                !.iter = pixel.iter + 1]
         ELSE [pixel EXCEPT !.done = TRUE]
    ELSE pixel

\* a faulty loop body: pixel.iter++ also in the else branch
StepPixel_CountsLastPass(pixel) ==
    IF ~pixel.done
    THEN IF Continues(pixel)
         THEN [pixel EXCEPT !.y = 2 * pixel.x * pixel.y + pixel.y0,
                            !.x = pixel.x * pixel.x - pixel.y * pixel.y
                                  + pixel.x0,
                            !.iter = pixel.iter + 1]
         ELSE [pixel EXCEPT !.done = TRUE, !.iter = pixel.iter + 1]
    ELSE pixel

\* a faulty loop body: pixel.iter++ placed after the if, so that it runs
\* for every pixel on every pass
StepPixel_IterAlways(pixel) ==
    LET stepped ==
          IF ~pixel.done
          THEN IF Continues(pixel)
               THEN [pixel EXCEPT !.y = 2 * pixel.x * pixel.y + pixel.y0,
                                  !.x = pixel.x * pixel.x - pixel.y * pixel.y
                                        + pixel.x0]
               ELSE [pixel EXCEPT !.done = TRUE]
          ELSE pixel
    IN  [stepped EXCEPT !.iter = pixel.iter + 1]

\* the pixel after one pass of the loop body
StepPixel(pixel) ==
    IF ~pixel.done
    THEN IF Continues(pixel)
         THEN LET x     == pixel.x
                  y     == pixel.y
                  x2    == jsMul(x, x)
                  y2    == jsMul(y, y)
                  xtemp == jsAdd(jsSub(x2, y2), pixel.x0)
              IN  [pixel EXCEPT !.y = jsAdd(jsMul(jsMul(2, x), y), pixel.y0),
                                !.x = xtemp,
                                !.iter = pixel.iter + 1]
         ELSE [pixel EXCEPT !.done = TRUE]
    ELSE pixel

\* a faulty colour update: color() of the iteration before the increment
StepData_StaleColor(grid, data, i) ==
    IF ~grid[i].done /\ Continues(grid[i])
    THEN WriteColor(data, i, color(grid[i].iter))
    ELSE data

\* the image data after one pass of the loop body for pixel i; var clr =
\* color(pixel.iter) is one value, bound once and then read by the stores
StepData(grid, data, i) ==
    IF ~grid[i].done /\ Continues(grid[i])
    THEN CHOOSE written \in
            {WriteColor(data, i, clr) :
                clr \in {color(n) : n \in {StepPixel(grid[i]).iter}}} : TRUE
    ELSE data

\* the for loop from index i to mb_total - 1
RECURSIVE IterateLoop(_, _, _)
IterateLoop(grid, data, i) ==
    IF i < mb_total
    THEN IterateLoop([grid EXCEPT ![i] = StepPixel(grid[i])],
                     StepData(grid, data, i), i + 1)
    ELSE [grid |-> grid, data |-> data]

\* the value a callback returned, as iterate_ret and redraw_ret hold it
\* ("none" before the first call)
Returned(b) == IF b THEN "true" ELSE "false"

\* a faulty return: true one call early
Settled_Early(n) == n >= max_iterations - 1

\* a faulty return: cur_iter > max_iterations
Settled_Strict(n) == n > max_iterations

\* return cur_iter >= max_iterations
Settled(n) == n >= max_iterations

----------------------------------------------------------------------------
(* Initial state: a configuration and the state custom() builds from it.   *)

Dims == 2 .. MaxDim

Coords == (0 - MaxCoord) .. MaxCoord

NoImage == <<>>

\* probe is not in use
NoProbe == [stage |-> "none"]

\* the state custom() builds from the configuration
Constructed ==
    /\ cur_iter = 0
    /\ mb_grid = InitGrid
    /\ mb_data = InitData
    /\ canvas_image = NoImage
    /\ iterate_ret = "none"
    /\ redraw_ret = "none"
    /\ running = "idle"
    /\ loop_i = 0

Init ==
    /\ mb_width \in Dims
    /\ mb_height \in Dims
    /\ mb_xmin \in Coords
    /\ mb_xmax \in Coords
    /\ max_iterations \in 1 .. MaxIter
    /\ ExactConfig(mb_width, mb_height, mb_xmin, mb_xmax)
    /\ probe = NoProbe
    /\ Constructed

----------------------------------------------------------------------------
(* The callbacks as whole calls. *)

\* a faulty scheduler: callbacks may start while another is running
CallbackMayStart_Preemptive == TRUE

\* d3.timer runs its callbacks one after another on the single script
\* thread: a callback starts only when no callback is running
CallbackMayStart == running = "idle"

\* the free-call model stops calling iterate() ExtraCalls calls after
\* the run has settled
MayCallIterate == cur_iter < max_iterations + ExtraCalls

\* iterate(), called any number of times
Iterate ==
    /\ CallbackMayStart
    /\ MayCallIterate
    /\ LET r == IterateLoop(mb_grid, mb_data, 0)
       IN  /\ mb_grid' = r.grid
           /\ mb_data' = r.data
    /\ cur_iter' = cur_iter + 1
    /\ iterate_ret' = Returned(Settled(cur_iter + 1))
    /\ UNCHANGED <<config, canvas_image, redraw_ret, running, loop_i, probe>>

\* a faulty redraw(): returns before drawing once the run has settled
Redraw_SkipsFinalDraw ==
    /\ CallbackMayStart
    /\ canvas_image' = IF Settled(cur_iter) THEN canvas_image ELSE mb_data
    /\ redraw_ret' = Returned(Settled(cur_iter))
    /\ UNCHANGED <<config, mb_grid, mb_data, cur_iter, iterate_ret,
                   running, loop_i, probe>>

\* a faulty redraw(): resetting the canvas size also clears the image data
Redraw_ClearsImageData ==
    /\ CallbackMayStart
    /\ canvas_image' = mb_data
    /\ mb_data' = [k \in DataIdx |-> 0]
    /\ redraw_ret' = Returned(Settled(cur_iter))
    /\ UNCHANGED <<config, mb_grid, cur_iter, iterate_ret,
                   running, loop_i, probe>>

\* redraw(): putImageData(mb_img, 0, 0)
Redraw ==
    /\ CallbackMayStart
    /\ canvas_image' = mb_data
    /\ redraw_ret' = Returned(Settled(cur_iter))
    /\ UNCHANGED <<config, mb_grid, mb_data, cur_iter, iterate_ret,
                   running, loop_i, probe>>

Next == Iterate \/ Redraw

Spec == Init /\ [][Next]_vars

----------------------------------------------------------------------------
(* The timer schedule: d3.timer calls each callback again and again, on    *)
(* every frame, until the callback returns true.                           *)

\* the last iterate() call returned true
IterateReturnedTrue == iterate_ret = "true"

\* the last redraw() call returned true
RedrawReturnedTrue == redraw_ret = "true"

TimerIterate == ~IterateReturnedTrue /\ Iterate

TimerRedraw == ~RedrawReturnedTrue /\ Redraw

NextTimer == TimerIterate \/ TimerRedraw

SpecTimer == Init /\ [][NextTimer]_vars

----------------------------------------------------------------------------
(* The script run on any configuration, valid or not: nothing in the       *)
(* script checks the configuration.                                        *)

\* as ExactConfig, without the requirements w > 1, h > 1, xmin < xmax
ExactAnyConfig(w, h, xmin, xmax) ==
    /\ w >= 1 /\ h >= 1
    /\ (w = 1 \/ (Pow2(w - 1) /\ (xmax - xmin) % (w - 1) = 0))
    /\ (Pow2(w) \/ h % w = 0)
    /\ ((xmax - xmin) * h) % (2 * w) = 0
    /\ (h = 1 \/ (Pow2(h - 1) /\ (2 * YMaxOf(w, h, xmin, xmax)) % (h - 1) = 0))

InitAnyConfig ==
    /\ mb_width \in 1 .. MaxDim
    /\ mb_height \in 1 .. MaxDim
    /\ mb_xmin \in Coords
    /\ mb_xmax \in Coords
    /\ max_iterations \in 0 .. MaxIter
    /\ ExactAnyConfig(mb_width, mb_height, mb_xmin, mb_xmax)
    /\ probe = NoProbe
    /\ Constructed

SpecConfig == InitAnyConfig /\ [][Next]_vars

----------------------------------------------------------------------------
(* iterate() one loop pass at a time, to observe the state inside a call.  *)

IterateCall ==
    /\ CallbackMayStart
    /\ MayCallIterate
    /\ running' = "iterate"
    /\ loop_i' = 0
    /\ UNCHANGED <<config, mb_grid, mb_data, cur_iter, canvas_image,
                   iterate_ret, redraw_ret, probe>>

IterateBody ==
    /\ running = "iterate"
    /\ loop_i < mb_total
    /\ mb_grid' = [mb_grid EXCEPT ![loop_i] = StepPixel(mb_grid[loop_i])]
    /\ mb_data' = StepData(mb_grid, mb_data, loop_i)
    /\ loop_i' = loop_i + 1
    /\ UNCHANGED <<config, cur_iter, canvas_image, iterate_ret, redraw_ret,
                   running, probe>>

IterateReturn ==
    /\ running = "iterate"
    /\ loop_i >= mb_total
    /\ cur_iter' = cur_iter + 1
    /\ iterate_ret' = Returned(Settled(cur_iter + 1))
    /\ running' = "idle"
    /\ loop_i' = 0
    /\ UNCHANGED <<config, mb_grid, mb_data, canvas_image, redraw_ret,
                   probe>>

NextLoop == IterateCall \/ IterateBody \/ IterateReturn \/ Redraw

SpecLoop == Init /\ [][NextLoop]_vars

\* the timer schedule with iterate() one loop pass at a time; d3.timer
\* calls every callback that has not returned true on every frame, and a
\* callback that has started runs to its return
TimerIterateCall == ~IterateReturnedTrue /\ IterateCall

NextTimerLoop ==
    TimerIterateCall \/ IterateBody \/ IterateReturn \/ TimerRedraw

SpecTimerLoop ==
    /\ Init
    /\ [][NextTimerLoop]_vars
    /\ WF_vars(TimerIterateCall)
    /\ WF_vars(IterateBody)
    /\ WF_vars(IterateReturn)
    /\ WF_vars(TimerRedraw)

----------------------------------------------------------------------------
(* Functions on their own: the variable probe holds an argument and the    *)
(* result; the script state is that of one fixed configuration.            *)

FixedConfig ==
    /\ mb_width = 2
    /\ mb_height = 2
    /\ mb_xmin = 0 - 2
    /\ mb_xmax = 2
    /\ max_iterations \in 1 .. MaxIter
    /\ Constructed

UNCHANGED_script ==
    UNCHANGED <<config, mb_grid, mb_data, cur_iter, canvas_image,
                iterate_ret, redraw_ret, running, loop_i>>

\* the loop body of iterate() applied to any pixel record
ProbeCoords == (0 - MaxCoord) .. MaxCoord

ProbePixels ==
    [cx : {0}, cy : {0}, x0 : ProbeCoords, y0 : ProbeCoords,
     x : ProbeCoords, y : ProbeCoords, iter : 0 .. MaxIter, done : BOOLEAN]

InitStep ==
    /\ FixedConfig
    /\ probe \in [stage : {"input"}, pixel : ProbePixels]

ProbeStepPixel ==
    /\ probe.stage = "input"
    /\ probe' = [stage |-> "output", pixel |-> probe.pixel,
                 result |-> StepPixel(probe.pixel)]
    /\ UNCHANGED_script

\* the argument is dropped, and the next one taken
ProbeNextPixel ==
    /\ probe.stage = "output"
    /\ probe' = [stage |-> "input", pixel |-> probe.result]
    /\ probe.result \in ProbePixels
    /\ UNCHANGED_script

NextStep == ProbeStepPixel \/ ProbeNextPixel

SpecStep == InitStep /\ [][NextStep]_vars

\* inMandelbrot and the loop body of iterate() on one point c = (cx/d,
\* cy/d) with d = ProbeDen: z = (x/zden, y/zden) is kept as exact fractions
PointCoords == (0 - MaxCoord * ProbeDen) .. (MaxCoord * ProbeDen)

InitPoint ==
    /\ FixedConfig
    /\ probe \in [stage : {"point"}, cx : PointCoords, cy : PointCoords]

\* done=inMandelbrot(x0, y0), iter=done ? max_iterations : 0, x: 0, y: 0
ProbeCertify ==
    /\ probe.stage = "point"
    /\ LET done == inMandelbrotScaled(probe.cx, probe.cy, ProbeDen)
       IN  probe' = [stage |-> "orbit", cx |-> probe.cx, cy |-> probe.cy,
                     certified |-> done,
                     x |-> 0, y |-> 0, zden |-> 1, iter |-> 0, done |-> FALSE]
    /\ UNCHANGED_script

\* (x2 + y2) <= 4 && pixel.iter < max_iterations on fractions
ContinuesPoint(pt) ==
    /\ pt.x * pt.x + pt.y * pt.y <= 4 * pt.zden * pt.zden
    /\ pt.iter < max_iterations

\* the loop body on fractions: z*z has denominator zden^2, which c is
\* brought to (times ProbeDen where ProbeDen does not divide zden^2)
StepPoint(pt) ==
    IF ~pt.done
    THEN IF ContinuesPoint(pt)
         THEN LET z2den == pt.zden * pt.zden
                  k     == IF z2den % ProbeDen = 0 THEN 1 ELSE ProbeDen
                  cmul  == (z2den * k) \div ProbeDen
                  x2    == pt.x * pt.x
                  y2    == pt.y * pt.y
                  xtemp == (x2 - y2) * k + pt.cx * cmul
              IN  [pt EXCEPT !.y = 2 * pt.x * pt.y * k + pt.cy * cmul,
                             !.x = xtemp,
                             !.zden = z2den * k,
                             !.iter = pt.iter + 1]
         ELSE [pt EXCEPT !.done = TRUE]
    ELSE pt

\* the orbit of the point is computed whether or not it was certified
ProbeStepPoint ==
    /\ probe.stage = "orbit"
    /\ ~probe.done
    /\ probe' = StepPoint(probe)
    /\ UNCHANGED_script

NextPoint == ProbeCertify \/ ProbeStepPoint

SpecPoint == InitPoint /\ [][NextPoint]_vars

----------------------------------------------------------------------------
(* Vocabulary of the claims. *)

\* the status of a pixel: the script keeps only the flag done; a done
\* pixel whose z has left the radius is ESCAPED, any other done pixel is
\* INTERIOR
Status(pixel) ==
    IF ~pixel.done THEN "ACTIVE"
    ELSE IF pixel.x * pixel.x + pixel.y * pixel.y > 4 THEN "ESCAPED"
    ELSE "INTERIOR"

\* the pixel was certified by the pre-filter at construction
Certified(pixel) == inMandelbrot(pixel.x0, pixel.y0)

\* this step is a completed iterate() call
IterateStep == cur_iter' = cur_iter + 1

\* the four colour-buffer bytes of pixel i in a buffer
Bytes(data, i) == <<data[4 * i], data[4 * i + 1], data[4 * i + 2],
                    data[4 * i + 3]>>

\* the bytes the initializer and iterate() store for a colour string
ColorBytes(clr) == <<getHexComponent(clr, 0), getHexComponent(clr, 1),
                     getHexComponent(clr, 2), 255>>

----------------------------------------------------------------------------
(* C1: once a pixel is done it is never not-done again, and from then on   *)
(* its z value (x, y) and its iteration count never change.                *)

C1_DoneIsFrozen ==
    [][\A i \in PixelIdx :
          mb_grid[i].done =>
             /\ mb_grid'[i].done
             /\ mb_grid'[i].x = mb_grid[i].x
             /\ mb_grid'[i].y = mb_grid[i].y
             /\ mb_grid'[i].iter = mb_grid[i].iter]_vars

\* a pixel that iterate() marked done has been through two more calls
C1_Witness ==
    \E i \in PixelIdx :
        /\ mb_grid[i].done
        /\ ~Certified(mb_grid[i])
        /\ cur_iter >= mb_grid[i].iter + 3

----------------------------------------------------------------------------
(* C2: from a fresh initialization, every iterate() call returns           *)
(* (cur_iter after the call >= max_iterations), so the max_iterations-th   *)
(* call returns true.                                                      *)

C2_SettlesAtMax ==
    /\ cur_iter >= 1 => iterate_ret = Returned(cur_iter >= max_iterations)
    /\ cur_iter = max_iterations => iterate_ret = "true"
    /\ (cur_iter >= 1 /\ cur_iter < max_iterations) => iterate_ret = "false"

\* the max_iterations-th call has returned true after calls returning false
C2_Witness ==
    /\ max_iterations >= 2
    /\ cur_iter = max_iterations
    /\ iterate_ret = "true"

----------------------------------------------------------------------------
(* C3: an iterate() call made after the run has settled (cur_iter >=       *)
(* max_iterations) leaves z, iteration and status of every pixel unchanged *)
(* and does not take cur_iter past max_iterations, so that cur_iter <=     *)
(* max_iterations in every reachable state.                                *)

----------------------------------------------------------------------------
(* C4: every pixel certified by the pre-filter starts done with iteration  *)
(* = max_iterations and colour = color(max_iterations), and no sequence of *)
(* iterate() calls changes its status, iteration, z or its four bytes.     *)

C4_CertifiedIsTerminal ==
    \A i \in PixelIdx :
        Certified(mb_grid[i]) =>
           /\ mb_grid[i].done
           /\ Status(mb_grid[i]) = "INTERIOR"
           /\ mb_grid[i].iter = max_iterations
           /\ mb_grid[i].x = 0
           /\ mb_grid[i].y = 0
           /\ Bytes(mb_data, i) = ColorBytes(color(max_iterations))

\* a certified pixel has been through iterate() calls
C4_Witness ==
    /\ cur_iter >= 2
    /\ \E i \in PixelIdx : Certified(mb_grid[i])

----------------------------------------------------------------------------
(* C5: in one iterate() call every pixel that is not done either has       *)
(* x^2 + y^2 > 4 or iteration >= max_iterations, and is then marked done   *)
(* with z and iteration unchanged, or else gets z updated, iteration       *)
(* increased by exactly 1 and stays not done; cur_iter increases by 1.     *)

C5_OneTransitionPerCall ==
    [][IterateStep =>
          \A i \in PixelIdx :
             LET p == mb_grid[i]
                 q == mb_grid'[i]
             IN  ~p.done =>
                   IF p.x * p.x + p.y * p.y > 4 \/ p.iter >= max_iterations
                   THEN /\ q.done
                        /\ q.x = p.x /\ q.y = p.y /\ q.iter = p.iter
                   ELSE /\ ~q.done
                        /\ q.iter = p.iter + 1
                        /\ q.x = p.x * p.x - p.y * p.y + p.x0
                        /\ q.y = 2 * p.x * p.y + p.y0]_vars
    /\ [][cur_iter' = cur_iter \/ cur_iter' = cur_iter + 1]_vars

\* both transitions have happened: one pixel has escaped and been marked
\* done, another has been updated in every call so far
C5_Witness ==
    /\ cur_iter >= 2
    /\ \E i, j \in PixelIdx :
          /\ Status(mb_grid[i]) = "ESCAPED"
          /\ ~mb_grid[j].done
          /\ mb_grid[j].iter = cur_iter

----------------------------------------------------------------------------
(* C6: for every pixel 0 <= iteration <= max_iterations in every reachable *)
(* state, and no step ever decreases a pixel's iteration.                  *)

C6_IterationBoundedMonotone ==
    /\ [](\A i \in PixelIdx :
             mb_grid[i].iter >= 0 /\ mb_grid[i].iter <= max_iterations)
    /\ [][\A i \in PixelIdx : mb_grid'[i].iter >= mb_grid[i].iter]_vars

\* a pixel that was iterated up to the cap has been through a further call
C6_Witness ==
    /\ cur_iter > max_iterations
    /\ \E i \in PixelIdx :
          ~Certified(mb_grid[i]) /\ mb_grid[i].iter = max_iterations

----------------------------------------------------------------------------
(* C7: a pixel with c = (2,2) is ESCAPED with iteration = 0 once it has    *)
(* been stepped from its initial state.                                    *)

C7_EscapesAtIterationZero ==
    \A i \in PixelIdx :
        (mb_grid[i].x0 = 2 /\ mb_grid[i].y0 = 2 /\ cur_iter >= 1) =>
           Status(mb_grid[i]) = "ESCAPED" /\ mb_grid[i].iter = 0

(* C7 as amended: a pixel with c = (2,2) is not done after the first       *)
(* iterate() call, which moves it to z = (2,2) with iteration = 1; the     *)
(* second call finds x^2 + y^2 = 8 > 4 and marks it done (ESCAPED) with    *)
(* iteration = 1, and it stays so.                                         *)

C7_EscapesOnSecondCall ==
    \A i \in PixelIdx :
        (mb_grid[i].x0 = 2 /\ mb_grid[i].y0 = 2) =>
           /\ cur_iter = 0 =>
                 /\ Status(mb_grid[i]) = "ACTIVE"
                 /\ mb_grid[i].iter = 0
                 /\ mb_grid[i].x = 0 /\ mb_grid[i].y = 0
           /\ cur_iter = 1 =>
                 /\ Status(mb_grid[i]) = "ACTIVE"
                 /\ mb_grid[i].iter = 1
                 /\ mb_grid[i].x = 2 /\ mb_grid[i].y = 2
           /\ cur_iter >= 2 =>
                 /\ Status(mb_grid[i]) = "ESCAPED"
                 /\ mb_grid[i].iter = 1
                 /\ mb_grid[i].x = 2 /\ mb_grid[i].y = 2

\* the pixel at c = (2,2) has been marked done while other pixels go on
C7_Witness ==
    /\ max_iterations >= 3
    /\ cur_iter = 2
    /\ \E i \in PixelIdx :
          mb_grid[i].x0 = 2 /\ mb_grid[i].y0 = 2 /\ mb_grid[i].done

----------------------------------------------------------------------------
(* C8: a pixel with c = (0,0) is certified by the pre-filter, so it is     *)
(* never ESCAPED and is INTERIOR with iteration = max_iterations; a pixel  *)
(* with c = (2,2) is not certified and starts ACTIVE with iteration = 0.   *)

C8_KnownPoints ==
    \A i \in PixelIdx :
        /\ (mb_grid[i].x0 = 0 /\ mb_grid[i].y0 = 0) =>
              /\ Certified(mb_grid[i])
              /\ Status(mb_grid[i]) = "INTERIOR"
              /\ mb_grid[i].iter = max_iterations
        /\ (mb_grid[i].x0 = 2 /\ mb_grid[i].y0 = 2) =>
              /\ ~Certified(mb_grid[i])
              /\ cur_iter = 0 =>
                    Status(mb_grid[i]) = "ACTIVE" /\ mb_grid[i].iter = 0

\* a grid holding both points, after iterate() calls
C8_Witness ==
    /\ cur_iter >= 1
    /\ \E i, j \in PixelIdx :
          /\ mb_grid[i].x0 = 0 /\ mb_grid[i].y0 = 0
          /\ mb_grid[j].x0 = 2 /\ mb_grid[j].y0 = 2

----------------------------------------------------------------------------
(* C9: after initialization and after every iterate() call, the bytes of   *)
(* pixel i at offsets 4i..4i+2 are color(iteration of pixel i) and the     *)
(* byte at 4i+3 is 255.                                                    *)

C9_BufferInLockstep ==
    \A i \in PixelIdx :
        Bytes(mb_data, i) = ColorBytes(color(mb_grid[i].iter))

\* pixels stand at three different iteration counts, each with its colour
C9_Witness ==
    /\ cur_iter >= 2
    /\ \E i, j, k \in PixelIdx :
          /\ mb_grid[i].iter = 1
          /\ mb_grid[j].iter = 2
          /\ mb_grid[k].iter = max_iterations
          /\ Bytes(mb_data, i) # Bytes(mb_data, j)
          /\ Bytes(mb_data, j) # Bytes(mb_data, k)

----------------------------------------------------------------------------
(* C10: redraw() reads the colour buffer only between completed iterate()  *)
(* calls and two iterate() calls never interleave: every image put on the  *)
(* canvas is the buffer as it stands after some whole number of iterate()  *)
(* calls, and between calls grid and buffer are those of cur_iter whole    *)
(* calls.                                                                  *)

\* grid and buffer after n whole iterate() calls from construction
RECURSIVE RunAfter(_)
RunAfter(n) ==
    IF n = 0 THEN [grid |-> InitGrid, data |-> InitData]
    ELSE LET r == RunAfter(n - 1) IN IterateLoop(r.grid, r.data, 0)

C10_NoPartialStepPresented ==
    /\ canvas_image # NoImage =>
          \E n \in 0 .. cur_iter : canvas_image = RunAfter(n).data
    /\ running = "idle" =>
          /\ mb_grid = RunAfter(cur_iter).grid
          /\ mb_data = RunAfter(cur_iter).data

\* an image has been presented, and iterate() is now part-way through the
\* grid with a buffer that is that of no whole number of calls
C10_Witness ==
    /\ canvas_image # NoImage
    /\ canvas_image # InitData
    /\ running = "iterate"
    /\ loop_i > 0 /\ loop_i < mb_total
    /\ \A n \in 0 .. (cur_iter + 1) : mb_data # RunAfter(n).data

----------------------------------------------------------------------------
(* C11: initialization with pixel_width <= 1, pixel_height <= 1,           *)
(* max_iterations <= 0 or degenerate/inverted plane bounds raises          *)
(* InvalidConfig and builds no pixel grid or colour buffer; pixel_width =  *)
(* 1 or pixel_height = 1 never reaches the division of the coordinate      *)
(* mapping.                                                                *)

\* the configurations the claim calls invalid
InvalidConfig ==
    \/ mb_width <= 1
    \/ mb_height <= 1
    \/ max_iterations <= 0
    \/ mb_xmin >= mb_xmax
    \/ mb_ymin >= mb_ymax

----------------------------------------------------------------------------
(* C12: in every state in which iterate() has returned true, one more      *)
(* iterate() call would leave every byte of the colour buffer unchanged.   *)

C12_StopsWhenNothingVisibleChanges ==
    IterateReturnedTrue =>
       IterateLoop(mb_grid, mb_data, 0).data = mb_data

\* iterate() has just returned true and a pixel is still not done, so one
\* more call would change the grid
C12_Witness ==
    /\ IterateReturnedTrue
    /\ cur_iter = max_iterations
    /\ max_iterations >= 2
    /\ \E i \in PixelIdx : ~mb_grid[i].done
    /\ IterateLoop(mb_grid, mb_data, 0).grid # mb_grid

----------------------------------------------------------------------------
(* C13: for a fixed configuration the colour buffer after max_iterations   *)
(* iterate() calls is the same in every run, however redraw() calls are    *)
(* interleaved: it is the buffer of the run without redraw() calls.        *)

C13_FinalBufferDetermined ==
    cur_iter = max_iterations =>
       mb_data = RunAfter(max_iterations).data

\* a run has completed with redraw() calls between its iterate() calls
C13_Witness ==
    /\ max_iterations >= 2
    /\ cur_iter = max_iterations
    /\ canvas_image # NoImage
    /\ canvas_image # InitData
    /\ canvas_image # mb_data

----------------------------------------------------------------------------
(* C16: for every linear index i, cx = i mod mb_width and cy = floor(i /   *)
(* mb_width) lie in the grid and cy*mb_width + cx = i, so pixel i's colour *)
(* is written at offset (cy*mb_width + cx)*4 = 4i and writing one pixel's  *)
(* colour leaves the bytes of every other pixel alone.                     *)

C16_IndexRoundTrip ==
    \A i \in PixelIdx :
        LET p == mb_grid[i]
        IN  /\ p.cx = i % mb_width
            /\ p.cy = i \div mb_width
            /\ p.cx >= 0 /\ p.cx < mb_width
            /\ p.cy >= 0 /\ p.cy < mb_height
            /\ p.cy * mb_width + p.cx = i
            /\ LET written == WriteColor(mb_data, i, color(p.iter + 1))
               IN  /\ \A k \in DataIdx :
                          written[k] # mb_data[k] =>
                             /\ k >= (p.cy * mb_width + p.cx) * 4
                             /\ k < (p.cy * mb_width + p.cx) * 4 + 4
                   /\ \A j \in PixelIdx :
                          j # i => Bytes(written, j) = Bytes(mb_data, j)

\* a grid that is not square, whose pixels have been written by iterate()
C16_Witness ==
    /\ mb_width # mb_height
    /\ cur_iter >= 1
    /\ \E i \in PixelIdx :
          /\ mb_grid[i].cy > 0
          /\ mb_grid[i].cx > 0
          /\ mb_grid[i].iter = 1
          /\ Bytes(mb_data, i) = ColorBytes(color(1))

----------------------------------------------------------------------------
(* C17: under the timer schedule, between iterate() calls every pixel that *)
(* is not done has iter = cur_iter, and every done pixel that was not      *)
(* certified by the pre-filter has iter < cur_iter.                        *)

C17_Lockstep ==
    \A i \in PixelIdx :
        /\ ~mb_grid[i].done => mb_grid[i].iter = cur_iter
        /\ (mb_grid[i].done /\ ~Certified(mb_grid[i])) =>
              mb_grid[i].iter < cur_iter

\* after several calls some pixels are still in step with cur_iter and
\* another was marked done calls ago
C17_Witness ==
    /\ cur_iter >= 3
    /\ \E i, j \in PixelIdx :
          /\ ~mb_grid[i].done
          /\ mb_grid[j].done
          /\ ~Certified(mb_grid[j])
          /\ mb_grid[j].iter + 1 < cur_iter

----------------------------------------------------------------------------
(* C18: under the timer schedule, when iterate() has returned true, every  *)
(* done pixel that was not certified has x^2 + y^2 > 4 and 1 <= iter <     *)
(* max_iterations, and every pixel that is not done has iter =             *)
(* max_iterations.                                                         *)

C18_DoneMeansEscaped ==
    IterateReturnedTrue =>
       \A i \in PixelIdx :
          LET p == mb_grid[i]
          IN  /\ (p.done /\ ~Certified(p)) =>
                    /\ p.x * p.x + p.y * p.y > 4
                    /\ p.iter >= 1
                    /\ p.iter < max_iterations
              /\ ~p.done => p.iter = max_iterations

\* stepping has stopped with an escaped pixel marked done, a pixel that
\* left the radius on the last update and is not marked, and a pixel that
\* never left the radius
C18_Witness ==
    /\ IterateReturnedTrue
    /\ \E i, j, k \in PixelIdx :
          /\ mb_grid[i].done /\ ~Certified(mb_grid[i])
          /\ ~mb_grid[j].done
          /\ mb_grid[j].x * mb_grid[j].x + mb_grid[j].y * mb_grid[j].y > 4
          /\ ~mb_grid[k].done
          /\ mb_grid[k].x * mb_grid[k].x + mb_grid[k].y * mb_grid[k].y <= 4

----------------------------------------------------------------------------
(* C19: with both callbacks scheduled fairly and each stopped once it      *)
(* returns true, both timers eventually stop; iterate() runs exactly       *)
(* max_iterations times; redraw() returns true only with cur_iter >=       *)
(* max_iterations, so the last image it presented is the final buffer.     *)

C19_FinalPresentation ==
    /\ <>[](/\ IterateReturnedTrue
            /\ RedrawReturnedTrue
            /\ cur_iter = max_iterations
            /\ canvas_image = mb_data)
    /\ [](cur_iter <= max_iterations)
    /\ [](RedrawReturnedTrue =>
             /\ cur_iter >= max_iterations
             /\ canvas_image = mb_data)

\* both timers have stopped after redraw() had presented earlier images
C19_Witness ==
    /\ max_iterations >= 2
    /\ IterateReturnedTrue
    /\ RedrawReturnedTrue
    /\ cur_iter = max_iterations
    /\ canvas_image = mb_data
    /\ canvas_image # InitData

----------------------------------------------------------------------------
(* C14: the pre-filter has no false positives: for every point for which   *)
(* inMandelbrot returns true, iterating z <- z^2 + c from z = 0 never      *)
(* produces x^2 + y^2 > 4 within max_iterations updates.                   *)

C14_NoFalsePositive ==
    (probe.stage = "orbit" /\ probe.certified) =>
       /\ probe.x * probe.x + probe.y * probe.y <= 4 * probe.zden * probe.zden
       /\ probe.done => probe.iter = max_iterations

\* a certified point that is not a point of the integer grid has been
\* iterated max_iterations times
C14_Witness ==
    /\ probe.stage = "orbit"
    /\ probe.certified
    /\ probe.cx % ProbeDen # 0
    /\ probe.cy # 0
    /\ max_iterations >= 3
    /\ probe.iter = max_iterations
    /\ probe.done

----------------------------------------------------------------------------
(* C15: when a pixel that is not done is advanced, its new z is (x*x - y*y *)
(* + x0, 2*x*y + y0), both computed from the old x and y: z^2 + c of the   *)
(* complex product.                                                        *)

\* the product of two complex numbers <<re, im>>
ComplexMul(a, b) == <<a[1] * b[1] - a[2] * b[2], a[1] * b[2] + a[2] * b[1]>>

ComplexAdd(a, b) == <<a[1] + b[1], a[2] + b[2]>>

C15_UpdateIsSquarePlusC ==
    probe.stage = "output" =>
       LET p == probe.pixel
           r == probe.result
           z == <<p.x, p.y>>
       IN  (~p.done /\ p.x * p.x + p.y * p.y <= 4 /\ p.iter < max_iterations)
              => /\ <<r.x, r.y>> = ComplexAdd(ComplexMul(z, z), <<p.x0, p.y0>>)
                 /\ r.x = p.x * p.x - p.y * p.y + p.x0
                 /\ r.y = 2 * p.x * p.y + p.y0
                 /\ r.iter = p.iter + 1

\* a pixel was advanced for which the new real part differs from the old
\* one and the imaginary part is not zero
C15_Witness ==
    /\ probe.stage = "output"
    /\ ~probe.pixel.done
    /\ probe.result.iter = probe.pixel.iter + 1
    /\ probe.pixel.y # 0
    /\ probe.pixel.x # 0
    /\ probe.result.x # probe.pixel.x
    /\ probe.result.y # 2 * probe.result.x * probe.pixel.y + probe.pixel.y0

====
